---- MODULE Spec2Model ----
(***************************************************************************)
(* Model of the contact pipeline of src/Tools.py: the duplicate merge      *)
(* (merge_duplicates, merge_by_key), the paginated extract, the chunked    *)
(* load and the per-survivor loop of transform of HubSpotDataPipeline, and *)
(* the helpers format_phone_number, get_country_from_city and              *)
(* get_country_code_from_city.                                             *)
(*                                                                         *)
(* A Python string is a tuple of one-character strings, so that split,     *)
(* join, strip, concatenation and sorting are computed character by        *)
(* character.  A missing value (None / NaN) is the tuple NaN; a missing    *)
(* date is NaT.  A DataFrame is a sequence of rows; a row is a record      *)
(* whose fields are the columns merge_by_key reads and writes, plus idx    *)
(* (the row's index label, which the survivor Series keeps as its name)    *)
(* and rows (history: the labels of the input rows merged into it).        *)
(***************************************************************************)
EXTENDS Integers, Sequences, FiniteSets, TLC

VARIABLES df, op, res, res2,
          pages, after, all_contacts, requests, epc,
          contacts, start, calls, lpc,
          phone, country_code, lib, handed, formatted, fpc,
          city, retries, attempts, country, gpc,
          transformed_df, index, tpc

mergeVars   == <<df, op, res, res2>>
extractVars == <<pages, after, all_contacts, requests, epc>>
loadVars    == <<contacts, start, calls, lpc>>
phoneVars   == <<phone, country_code, lib, handed, formatted, fpc>>
geoVars     == <<city, retries, attempts, country, gpc>>
transformVars == <<transformed_df, index, tpc>>
vars == <<df, op, res, res2, pages, after, all_contacts, requests, epc,
          contacts, start, calls, lpc,
          phone, country_code, lib, handed, formatted, fpc,
          city, retries, attempts, country, gpc,
          transformed_df, index, tpc>>

-----------------------------------------------------------------------------
(* Bounds of the model. *)
MaxRecords == 3
MaxDate == 2
MaxIndLen == 2
MaxGroup == 2
MaxPages == 3
MaxPageLen == 2
MaxContacts == 250

-----------------------------------------------------------------------------
(* Strings. *)

\* The characters the model uses, in code point order.
Chars == <<"1", "2", "3", "4", "5", ";", "D", "F", "J", "T",
           "d", "e", "f", "j", "t", "x">>

Ord(c) == CHOOSE i \in 1..Len(Chars) : Chars[i] = c

NaN == <<"NaN">>
NaT == 0

isna(v) == v = NaN
notna(v) == v # NaN

RECURSIVE StrLess(_, _)
\* Python's < on str: lexicographic by code point.
StrLess(a, b) ==
    IF a = <<>> THEN b # <<>>
    ELSE IF b = <<>> THEN FALSE
    ELSE IF a[1] = b[1] THEN StrLess(Tail(a), Tail(b))
    ELSE Ord(a[1]) < Ord(b[1])

RECURSIVE split(_)
\* str.split(";")
split(s) ==
    IF \A i \in 1..Len(s) : s[i] # ";" THEN <<s>>
    ELSE LET i == CHOOSE j \in 1..Len(s) :
                      s[j] = ";" /\ \A k \in 1..(j - 1) : s[k] # ";"
         IN <<SubSeq(s, 1, i - 1)>> \o split(SubSeq(s, i + 1, Len(s)))

RECURSIVE join(_)
\* ";".join(seq)
join(seq) ==
    IF seq = <<>> THEN <<>>
    ELSE IF Len(seq) = 1 THEN seq[1]
    ELSE seq[1] \o <<";">> \o join(Tail(seq))

RECURSIVE strip(_)
\* str.strip(";")
strip(s) ==
    IF s = <<>> THEN s
    ELSE IF s[1] = ";" THEN strip(Tail(s))
    ELSE IF s[Len(s)] = ";" THEN strip(SubSeq(s, 1, Len(s) - 1))
    ELSE s

RECURSIVE sorted(_)
\* sorted(a set of str)
sorted(S) ==
    IF S = {} THEN <<>>
    ELSE LET m == CHOOSE x \in S : \A y \in S : y = x \/ StrLess(x, y)
         IN <<m>> \o sorted(S \ {m})

Range(seq) == {seq[i] : i \in 1..Len(seq)}

\* The one-character string of a row number.
Digit(i) == <<Chars[i]>>

-----------------------------------------------------------------------------
(* merge_by_key *)

DATE == "technical_test___create_date"

RECURSIVE SortFrom(_, _)
\* The orders sort_values may leave the rows I of d in: a row of the latest
\* date first, then the rest; rows without a date last, in their own order.
SortFrom(d, I) ==
    IF I = {} THEN {<<>>}
    ELSE LET dated == {i \in I : d[i][DATE] # NaT}
             heads == IF dated # {}
                      THEN {i \in dated : \A j \in dated : d[i][DATE] >= d[j][DATE]}
                      ELSE {CHOOSE i \in I : \A j \in I : i <= j}
         IN UNION {{<<d[h]>> \o t : t \in SortFrom(d, I \ {h})} : h \in heads}

\* df.sort_values(by=date, ascending=False): the default kind is quicksort,
\* which is not stable, so rows of equal date come in any order; rows with a
\* missing date come last (na_position="last"), in their original order.
SortValues(d) == SortFrom(d, 1..Len(d))

\* The grouping key of a row: (firstname + lastname).fillna("") or raw_email.
UniqueId(row, key) ==
    IF key = "Full Name"
    THEN IF notna(row.firstname) /\ notna(row.lastname)
         THEN row.firstname \o row.lastname
         ELSE <<>>
    ELSE row.raw_email

\* df.groupby(key): the groups in ascending key order (sort=True), rows with a
\* missing key left out (dropna=True), each group in the order of the frame.
GroupBy(d, key) ==
    LET keys == {UniqueId(d[i], key) : i \in 1..Len(d)} \ {NaN}
        ks == sorted(keys)
        member(k) == LET Same(row) == UniqueId(row, key) = k
                     IN SelectSeq(d, Same)
    IN [g \in 1..Len(ks) |-> member(ks[g])]

\* The columns filled from older rows (the date column is filled likewise).
Columns == <<"hs_object_id", "firstname", "lastname", "raw_email", "address", "industry">>

\* Lines 96-98 for one older row.
Backfill(primary, row) ==
    [c \in DOMAIN primary |->
        IF c \in Range(Columns)
        THEN IF isna(primary[c]) /\ notna(row[c]) /\ row[c] # <<>>
             THEN row[c] ELSE primary[c]
        ELSE IF c = DATE
        THEN IF primary[c] = NaT /\ row[c] # NaT THEN row[c] ELSE primary[c]
        ELSE primary[c]]

IndustryTokens(row) ==
    IF notna(row.industry) THEN Range(split(row.industry)) ELSE {}

\* Line 105.
FormatIndustry(industry_set) == <<";">> \o strip(join(sorted(industry_set)))

RECURSIVE FillFrom(_, _)
FillFrom(primary, older) ==
    IF older = <<>> THEN primary
    ELSE FillFrom(Backfill(primary, Head(older)), Tail(older))

\* Lines 86-108 with the industries of the older rows left out.
MergeGroup_PrimaryIndustry(group) ==
    LET primary == FillFrom(group[1], Tail(group))
    IN [primary EXCEPT !.industry = FormatIndustry(IndustryTokens(group[1])),
                       !.rows = UNION {group[i].rows : i \in 1..Len(group)}]

RECURSIVE TokenList(_)
\* The industry entries of the rows, as split leaves them.
TokenList(group) ==
    IF group = <<>> THEN <<>>
    ELSE (IF notna(Head(group).industry) THEN split(Head(group).industry) ELSE <<>>)
         \o TokenList(Tail(group))

\* Lines 86-108 with the industries joined as load joins them (line 456):
\* the entries as split leaves them, behind a ';'.
MergeGroup_JoinSplit(group) ==
    LET primary == FillFrom(group[1], Tail(group))
    IN [primary EXCEPT !.industry = <<";">> \o join(TokenList(group)),
                       !.rows = UNION {group[i].rows : i \in 1..Len(group)}]

\* Lines 86-108 for one group.
MergeGroup(group) ==
    LET primary == FillFrom(group[1], Tail(group))
        industry_set == UNION {IndustryTokens(group[i]) : i \in 1..Len(group)}
    IN [primary EXCEPT !.industry = FormatIndustry(industry_set),
                       !.rows = UNION {group[i].rows : i \in 1..Len(group)}]

\* Lines 75-111 on the sorted frame.
MergeSorted(s, key) ==
    LET grouped == GroupBy(s, key)
    IN [g \in 1..Len(grouped) |-> MergeGroup(grouped[g])]

KeyError == [raised |-> TRUE, sorted |-> <<>>, out |-> <<>>]

\* merge_by_key(df, key): every result the sort allows.  A frame without
\* rows has no columns, and sort_values raises KeyError.
merge_by_key(d, key) ==
    IF d = <<>> THEN {KeyError}
    ELSE {[raised |-> FALSE, sorted |-> s, out |-> MergeSorted(s, key)] :
            s \in SortValues(d)}

\* merge_duplicates(df): the Email pass, then the Full Name pass on its
\* result.  Line 47 parses the dates: a date is held as its day number, a
\* missing one as NaT, and a frame without rows has no date column to parse.
merge_duplicates(d) ==
    UNION {IF r1.raised THEN {KeyError}
           ELSE {[r2 EXCEPT !.sorted = <<>>] : r2 \in merge_by_key(r1.out, "Full Name")} :
           r1 \in merge_by_key(d, "Email")}

-----------------------------------------------------------------------------
(* Inputs of the merge. *)

\* In a shape, Own stands for a value the row number makes (an id and an
\* email no other row has, an industry its neighbours do not have); the date is Day(d), day d or NaT, or NthDay, the day of the row number.
Own == <<"own">>
Day(d) == <<"day", d>>
NthDay == <<"nth", 0>>

Shape(id, fn, ln, em, ad, ind, dt) ==
    [hs_object_id |-> id, firstname |-> fn, lastname |-> ln, raw_email |-> em,
     address |-> ad, industry |-> ind, technical_test___create_date |-> dt]

\* Row i of a frame, of the given shape.
Row(i, sh) ==
    [idx |-> i, rows |-> {i},
     hs_object_id |-> IF sh.hs_object_id = Own THEN Digit(i) ELSE sh.hs_object_id,
     firstname |-> sh.firstname, lastname |-> sh.lastname,
     raw_email |-> IF sh.raw_email = Own THEN <<"e">> \o Digit(i) ELSE sh.raw_email,
     address |-> sh.address,
     industry |-> IF sh.industry = Own
                  THEN (IF i % 2 = 1 THEN <<"F">> ELSE <<"T">>)
                  ELSE sh.industry,
     technical_test___create_date |->
        IF sh[DATE] = NthDay THEN i ELSE sh[DATE][2]]

\* Names, emails and dates vary: an email is missing, shared, or the row's own.
NameEmailShapes ==
    {Shape(Own, fn, ln, em, NaN, ind, dt) :
        fn \in {NaN, <<"J">>}, ln \in {NaN, <<"D">>},
        em \in {NaN, <<"e">>, Own}, ind \in {Own},
        dt \in {Day(d) : d \in 1..MaxDate}}

\* Two first names, either name part possibly missing, and emails vary; row i
\* was created on day i.
RerunShapes ==
    {Shape(Own, fn, ln, em, NaN, ind, NthDay) :
        fn \in {NaN, <<"J">>, <<"T">>}, ln \in {NaN, <<"D">>},
        em \in {NaN, <<"e">>, Own}, ind \in {Own}}

\* Missing, empty and present values of the filled columns; the date may be
\* missing as well.
BackfillShapes ==
    {Shape(id, <<"J">>, ln, em, ad, <<"F">>, dt) :
        id \in {NaN, Own}, ln \in {NaN, <<>>, <<"D">>},
        em \in {NaN, <<"e">>}, ad \in {NaN, <<>>, <<"x">>},
        dt \in {Day(d) : d \in {NaT} \cup 1..MaxDate}}

RECURSIVE Strings(_)
\* The industry strings of at most n characters.
Strings(n) ==
    IF n = 0 THEN {<<>>}
    ELSE Strings(n - 1) \cup
         {Append(t, c) : t \in {u \in Strings(n - 1) : Len(u) = n - 1},
                         c \in {";", "F", "T"}}

\* One name and one email (one group under either key), row i created on day
\* i; the industry string varies, separators and empty entries included.
IndustryShapes ==
    {Shape(Own, <<"J">>, <<"D">>, <<"e">>, NaN, ind, NthDay) :
        ind \in {NaN} \cup Strings(MaxIndLen)}

\* Names in either letter case, either name part possibly missing; every
\* row has an email of its own and was created on day i.
CaseShapes ==
    {Shape(Own, fn, ln, Own, NaN, Own, NthDay) :
        fn \in {NaN, <<"J">>, <<"j">>}, ln \in {NaN, <<"D">>, <<"d">>}}

NoResult == [raised |-> FALSE, sorted |-> <<>>, out |-> <<>>]

ExtractIdle ==
    /\ pages = <<>> /\ after = 0 /\ all_contacts = <<>> /\ requests = <<>>
    /\ epc = "idle"

LoadIdle == contacts = <<>> /\ start = 0 /\ calls = <<>> /\ lpc = "idle"

MergeIdle == df = <<>> /\ op = "idle" /\ res = NoResult /\ res2 = NoResult

PhoneIdle ==
    /\ phone = NaN /\ country_code = NaN /\ lib = "valid" /\ handed = NaN
    /\ formatted = NaN /\ fpc = "idle"

GeoIdle ==
    /\ city = NaN /\ retries = 0 /\ attempts = <<>> /\ country = NaN
    /\ gpc = "idle"

TransformIdle == transformed_df = <<>> /\ index = 0 /\ tpc = "idle"

HelpersIdle == PhoneIdle /\ GeoIdle /\ TransformIdle

\* A frame of at most n rows, each of one of the shapes.
InitMergeWith(Shapes, n) ==
    /\ \E k \in 0..n : \E sh \in [1..k -> Shapes] :
          df = [i \in 1..k |-> Row(i, sh[i])]
    /\ op = "init" /\ res = NoResult /\ res2 = NoResult
    /\ ExtractIdle /\ LoadIdle /\ HelpersIdle

InitMerge == InitMergeWith(NameEmailShapes, MaxRecords)
InitRerun == InitMergeWith(RerunShapes, MaxRecords)
InitBackfill == InitMergeWith(BackfillShapes, MaxGroup)
InitIndustry == InitMergeWith(IndustryShapes, MaxGroup)
InitCase == InitMergeWith(CaseShapes, MaxRecords)

CallMergeByKey(key) ==
    /\ op = "init"
    /\ res' \in merge_by_key(df, key)
    /\ op' = key
    /\ UNCHANGED <<df, res2>>
    /\ UNCHANGED <<extractVars, loadVars, phoneVars, geoVars, transformVars>>

CallMergeDuplicates ==
    /\ op = "init"
    /\ res' \in merge_duplicates(df)
    /\ op' = "merge_duplicates"
    /\ UNCHANGED <<df, res2>>
    /\ UNCHANGED <<extractVars, loadVars, phoneVars, geoVars, transformVars>>

\* merge_duplicates on its own output.
CallMergeDuplicatesAgain ==
    /\ op = "merge_duplicates"
    /\ ~res.raised
    /\ res2' \in merge_duplicates(res.out)
    /\ op' = "merge_twice"
    /\ UNCHANGED <<df, res>>
    /\ UNCHANGED <<extractVars, loadVars, phoneVars, geoVars, transformVars>>

NextMerge ==
    \/ CallMergeByKey("Email")
    \/ CallMergeByKey("Full Name")
    \/ CallMergeDuplicates
    \/ CallMergeDuplicatesAgain

SpecMerge == InitMerge /\ [][NextMerge]_vars
SpecRerun == InitRerun /\ [][NextMerge]_vars
SpecBackfill == InitBackfill /\ [][NextMerge]_vars
SpecIndustry == InitIndustry /\ [][NextMerge]_vars
SpecCase == InitCase /\ [][NextMerge]_vars

-----------------------------------------------------------------------------
(* Claims about the merge. *)

Completed(o) == op = o /\ ~res.raised
ByKey == (op = "Email" \/ op = "Full Name") /\ ~res.raised
Survivors(r) == {r.out[k] : k \in 1..Len(r.out)}
Values(row) == IndustryTokens(row) \ {<<>>}

\* C1: every industry value of every input record is among the industries of
\* the survivor of merge_duplicates that the record was merged into.
C1_NoIndustryLost ==
    Completed("merge_duplicates") =>
        \A i \in 1..Len(df) : \E o \in Survivors(res) :
            i \in o.rows /\ Values(df[i]) \subseteq Values(o)

\* The survivors by externalId with their industries.
Identities(r) == {<<o.hs_object_id, o.industry>> : o \in Survivors(r)}

SameSurvivors ==
    /\ ~res2.raised
    /\ Len(res2.out) = Len(res.out)
    /\ Identities(res2) = Identities(res)

AllNamed == \A i \in 1..Len(df) : notna(df[i].firstname) /\ notna(df[i].lastname)

Later(a, b) == a[DATE] > b[DATE]

\* C3: the survivor of a group is its member of latest createDate, the first
\* in the input among those of that date, and keeps that member's externalId
\* when the member has one.
C3_SurvivorIsLatestFirst ==
    ByKey => \A o \in Survivors(res) :
        /\ o.idx \in o.rows
        /\ \A j \in o.rows :
              /\ ~Later(df[j], df[o.idx])
              /\ df[j][DATE] = df[o.idx][DATE] => o.idx <= j
        /\ notna(df[o.idx].hs_object_id) => o.hs_object_id = df[o.idx].hs_object_id

Present(c, v) == IF c = DATE THEN v # NaT ELSE notna(v) /\ v # <<>>

\* The members of a survivor's group, most recent first.
Members(o) == LET In(row) == row.idx \in o.rows IN SelectSeq(res.sorted, In)

\* C4: each filled field of a survivor is the value of the most recent group
\* member whose value is present and non-empty (empty counts as absent).
C4_MostRecentPresentValue ==
    ByKey => \A o \in Survivors(res) :
        \A c \in {"hs_object_id", "firstname", "lastname", "raw_email", "address", DATE} :
            LET m == Members(o)
                has == {i \in 1..Len(m) : Present(c, m[i][c])}
            IN has # {} =>
                 o[c] = m[CHOOSE i \in has : \A j \in has : i <= j][c]

\* C5: in the Email pass every input record without an email is a survivor
\* of its own.
C5_EmaillessKept ==
    Completed("Email") =>
        \A i \in 1..Len(df) : isna(df[i].raw_email) =>
            \E o \in Survivors(res) : o.rows = {i}

\* The Full Name pass first, then the Email pass on its result.
NameThenEmail(d) ==
    UNION {IF r1.raised THEN {KeyError}
           ELSE {[r2 EXCEPT !.sorted = <<>>] : r2 \in merge_by_key(r1.out, "Email")} :
           r1 \in merge_by_key(d, "Full Name")}

\* C6: the result of merge_duplicates is that of the Full Name pass followed
\* by the Email pass.
C6_NameThenEmail == Completed("merge_duplicates") => res \in NameThenEmail(df)

\* s is ';' followed by the values of E, each once, ascending, joined by ';'.
Listing(s, E) ==
    /\ s # <<>> /\ s[1] = ";"
    /\ IF E = {} THEN Tail(s) = <<>>
       ELSE LET toks == split(Tail(s))
            IN /\ Range(toks) = E
               /\ \A i, j \in 1..Len(toks) : i < j => StrLess(toks[i], toks[j])

\* C7: a survivor's industries string is ';' followed by the distinct
\* non-empty industry values of its group members, ascending, joined by ';'.
C7_IndustryListing ==
    (op \in {"Email", "Full Name", "merge_duplicates"} /\ ~res.raised) =>
        \A o \in Survivors(res) :
            Listing(o.industry, UNION {Values(df[i]) : i \in o.rows})

\* A survivor of two records with two values between them, one of the
\* records already carrying the leading ';'.
C7_Witness ==
    /\ ByKey
    /\ \E o \in Survivors(res) :
          /\ Cardinality(o.rows) = 2
          /\ \E i \in o.rows : notna(df[i].industry) /\ df[i].industry # <<>>
                                 /\ df[i].industry[1] = ";"
          /\ Cardinality(UNION {Values(df[i]) : i \in o.rows}) = 2

\* str.lower() of one character.
LowerChar(c) ==
    IF c = "D" THEN "d" ELSE IF c = "F" THEN "f"
    ELSE IF c = "J" THEN "j" ELSE IF c = "T" THEN "t" ELSE c

Lower(s) == [i \in 1..Len(s) |-> LowerChar(s[i])]

\* A name part, absent read as empty.
Part(v) == IF isna(v) THEN <<>> ELSE v

\* The full-name key C17 states: lowercase(firstName concatenated with
\* lastName), empty only when both parts are absent.
FullNameKey(row) == Lower(Part(row.firstname) \o Part(row.lastname))

\* C17: in the Full Name pass two input records are merged into the same
\* survivor exactly when their lowercased concatenated names are equal.
C17_FullNameKey ==
    Completed("Full Name") =>
        \A i, j \in 1..Len(df) :
            (\E o \in Survivors(res) : i \in o.rows /\ j \in o.rows)
                <=> FullNameKey(df[i]) = FullNameKey(df[j])

\* The grouping the code makes: records are merged exactly when the
\* concatenation of their name parts, as written, is equal, where a record
\* lacking either part has the empty key.
C17_GroupedAsWritten ==
    Completed("Full Name") =>
        \A i, j \in 1..Len(df) :
            (\E o \in Survivors(res) : i \in o.rows /\ j \in o.rows)
                <=> UniqueId(df[i], "Full Name") = UniqueId(df[j], "Full Name")

\* The first position in the sorted frame of a member of the survivor's group.
FirstSeen(o) ==
    CHOOSE p \in 1..Len(res.sorted) :
        /\ res.sorted[p].idx \in o.rows
        /\ \A q \in 1..(p - 1) : res.sorted[q].idx \notin o.rows

\* C18: merge_by_key returns the survivors in the order in which their groups
\* first appear in the frame sorted by createDate descending.
C18_SurvivorOrder ==
    ByKey => \A k, l \in 1..Len(res.out) :
        k < l => FirstSeen(res.out[k]) < FirstSeen(res.out[l])

\* The order the code returns: ascending by key value.
C18_OrderedByKey ==
    ByKey => \A k, l \in 1..Len(res.out) :
        k < l => StrLess(UniqueId(res.sorted[FirstSeen(res.out[k])], op),
                         UniqueId(res.sorted[FirstSeen(res.out[l])], op))

-----------------------------------------------------------------------------
(* HubSpotDataPipeline.extract *)

\* The pages the search API holds: page p carries results and, unless it is
\* the last, paging.next.after (0 here: no paging.next).
NoNext == 0

\* A contact of the search response, reduced to the properties collected.
Contact(p, k) == [properties |-> [hs_object_id |-> <<p, k>>]]

PageSets ==
    UNION {{pg \in [1..n -> [results : {[k \in 1..m |-> 0] : m \in 0..MaxPageLen},
                             next : 0..MaxPages]] :
              /\ \A p \in 1..n : (pg[p].next = NoNext) <=> (p = n)
              /\ \A p, q \in 1..n : p # q => pg[p].next # pg[q].next} :
           n \in 1..MaxPages}

\* The results of page p, each contact distinct.
Results(pg, p) == [k \in 1..Len(pg[p].results) |-> Contact(p, k)]

\* The page the API answers a request with: the first for the initial
\* offset, otherwise the one after the page that handed out the cursor.
Served(a) ==
    IF a = 0 THEN 1
    ELSE 1 + (CHOOSE p \in 1..Len(pages) : pages[p].next = a)

\* Lines 351-356: the properties of every contact of the page.
Collected(data) == [k \in 1..Len(data) |-> data[k].properties]

InitExtract ==
    /\ pages \in PageSets
    /\ after = 0 /\ all_contacts = <<>> /\ requests = <<>> /\ epc = "loop"
    /\ MergeIdle /\ LoadIdle /\ HelpersIdle

\* Lines 344-364 without line 362: the cursor is never taken over.
ExtractPage_StaleCursor ==
    /\ epc = "loop"
    /\ LET p == Served(after)
       IN /\ requests' = Append(requests, after)
          /\ all_contacts' = all_contacts \o Collected(Results(pages, p))
          /\ epc' = IF pages[p].next # NoNext THEN "loop" ELSE "returned"
    /\ UNCHANGED <<pages, after>>
    /\ UNCHANGED <<mergeVars, loadVars, phoneVars, geoVars, transformVars>>

\* One turn of the while loop whose request succeeds (lines 344-364).
ExtractPage ==
    /\ epc = "loop"
    /\ LET p == Served(after)
           has_more == pages[p].next
       IN /\ requests' = Append(requests, after)
          /\ all_contacts' = all_contacts \o Collected(Results(pages, p))
          /\ IF has_more # NoNext
             THEN after' = has_more /\ epc' = "loop"
             ELSE after' = after /\ epc' = "returned"
    /\ UNCHANGED pages
    /\ UNCHANGED <<mergeVars, loadVars, phoneVars, geoVars, transformVars>>

\* One turn whose request raises RequestException: extract returns None
\* (lines 366-368).
ExtractFail ==
    /\ epc = "loop"
    /\ requests' = Append(requests, after)
    /\ epc' = "failed"
    /\ UNCHANGED <<pages, after, all_contacts>>
    /\ UNCHANGED <<mergeVars, loadVars, phoneVars, geoVars, transformVars>>

\* Lines 366-370 with the contacts gathered so far returned on a failure.
extract_return_Partial == [value |-> "list", contacts |-> all_contacts]

\* What extract returns: None after a failed request (line 368), the list
\* of all contacts otherwise (line 370).
extract_return ==
    IF epc = "failed" THEN [value |-> "None", contacts |-> <<>>]
    ELSE [value |-> "list", contacts |-> all_contacts]

NextExtract == ExtractPage \/ ExtractFail

SpecExtract == InitExtract /\ [][NextExtract]_vars

RECURSIVE PagesUpTo(_)
\* The contacts of pages 1..n in page order.
PagesUpTo(n) ==
    IF n = 0 THEN <<>>
    ELSE PagesUpTo(n - 1) \o [k \in 1..Len(pages[n].results) |-> Contact(n, k).properties]

C14_FailureAborts ==
    /\ [](epc = "failed" =>
            /\ requests # <<>>
            /\ all_contacts = PagesUpTo(Len(requests) - 1)
            /\ extract_return.value = "None"
            /\ extract_return.contacts = <<>>)
    /\ [][epc = "failed" => (requests' = requests /\ epc' = "failed")]_vars

\* Two pages were fetched and the request for the third failed.
C14_Witness ==
    /\ epc = "failed" /\ Len(requests) = 3
    /\ Len(all_contacts) = 2 * MaxPageLen

-----------------------------------------------------------------------------
(* HubSpotDataPipeline.load *)

batch_size == 100

Min(a, b) == IF a < b THEN a ELSE b

\* df.iloc[a:b]
iloc(d, a, b) == SubSeq(d, a + 1, Min(b, Len(d)))

\* Line 456: ";" + ";".join(industry.split(";")) if industry else "".
original_industry(industry) ==
    IF industry # <<>> THEN <<";">> \o join(split(industry)) ELSE <<>>

\* Lines 446-460, reduced to the property that identifies the row and the
\* industries.
ContactData(row) ==
    [properties |-> [temporary_id |-> row.hs_object_id,
                     original_industry |-> original_industry(row.industry)]]

\* df.fillna(""), line 433.
fillna(d) ==
    [i \in 1..Len(d) |->
        [c \in DOMAIN d[i] |->
            IF c \in Range(Columns) /\ isna(d[i][c]) THEN <<>> ELSE d[i][c]]]

\* What batch_api.create does: it returns a response whose status is not
\* error ("ok"), or one of status error whose category is CONFLICT
\* ("conflict"), is another one ("error") or is not there at all
\* ("uncategorized"), or it raises ApiException, or fails in the transport
\* under it with an exception that is no ApiException.
Outcomes == {"ok", "error", "conflict", "uncategorized", "ApiException", "transport"}

\* show_errors(response): the line it prints.
show_errors(response) ==
    IF response = "uncategorized"
    THEN "Response object does not have expected attributes."
    ELSE IF response = "error" THEN "Error:"
    ELSE "Batch processed successfully."

\* Lines 466-473: the lines load prints for a batch call.
LoadPrints(outcome) ==
    IF outcome = "transport" THEN <<>>
    ELSE IF outcome = "ApiException"
    THEN <<"Exception when calling batch_api->create:">>
    ELSE <<show_errors(outcome), "Batch creation of contacts completed successfully.">>

InitLoad ==
    /\ contacts \in {[i \in 1..n |-> [hs_object_id |-> i, industry |-> <<>>]] :
                        n \in 0..MaxContacts}
    /\ start = 0 /\ calls = <<>> /\ lpc = "loop"
    /\ MergeIdle /\ ExtractIdle /\ HelpersIdle

\* Lines 436-473 for one chunk: only ApiException is caught.
LoadBatch(outcome) ==
    /\ lpc = "loop"
    /\ start < Len(contacts)
    /\ LET batch_df == iloc(contacts, start, start + batch_size)
           batch_contacts == [k \in 1..Len(batch_df) |-> ContactData(batch_df[k])]
       IN calls' = Append(calls, [inputs |-> batch_contacts, outcome |-> outcome,
                                  printed |-> LoadPrints(outcome)])
    /\ IF outcome = "transport"
       THEN lpc' = "raised" /\ start' = start
       ELSE lpc' = "loop" /\ start' = start + batch_size
    /\ UNCHANGED contacts
    /\ UNCHANGED <<mergeVars, extractVars, phoneVars, geoVars, transformVars>>

\* The range is exhausted: load returns.
LoadReturn ==
    /\ lpc = "loop"
    /\ start >= Len(contacts)
    /\ lpc' = "done"
    /\ UNCHANGED <<contacts, start, calls>>
    /\ UNCHANGED <<mergeVars, extractVars, phoneVars, geoVars, transformVars>>

NextLoad == (\E outcome \in Outcomes : LoadBatch(outcome)) \/ LoadReturn

SpecLoad == InitLoad /\ [][NextLoad]_vars

\* load is called on the frame merge_duplicates returned (lines 429-433).
StartLoad ==
    /\ op = "merge_duplicates" /\ ~res.raised
    /\ lpc = "idle"
    /\ contacts' = fillna(res.out)
    /\ start' = 0 /\ calls' = <<>> /\ lpc' = "loop"
    /\ UNCHANGED <<mergeVars, extractVars, phoneVars, geoVars, transformVars>>

NextMergeLoad == NextMerge \/ StartLoad \/ NextLoad

\* The merge of a frame of industries followed by the load of its result.
SpecMergeLoad == InitIndustry /\ [][NextMergeLoad]_vars

Ended == lpc = "done" \/ lpc = "raised"

\* The chunks of n rows: ceil(n / 100) of them.
NumChunks(n) == (n + 99) \div 100

RECURSIVE Carried(_)
\* The rows the first k calls carry, in call order.
Carried(k) ==
    IF k = 0 THEN <<>>
    ELSE Carried(k - 1) \o [j \in 1..Len(calls[k].inputs) |-> calls[k].inputs[j].properties.temporary_id]

\* C9: load ends having issued ceil(n / 100) batch calls, each of at most 100
\* inputs and all but the last of exactly 100, which together carry every
\* row once, in row order.
C9_Chunks ==
    Ended =>
        /\ Len(calls) = NumChunks(Len(contacts))
        /\ \A k \in 1..Len(calls) :
              /\ Len(calls[k].inputs) <= 100
              /\ k < Len(calls) => Len(calls[k].inputs) = 100
        /\ Carried(Len(calls)) = [i \in 1..Len(contacts) |-> contacts[i].hs_object_id]

Failed(call) == call.outcome # "ok"

\* C10: when the batch call of a chunk fails, by an API error or in the
\* transport, the calls of all later chunks are made, with their own rows.
C10_LaterChunksAttempted ==
    Ended =>
        \A k \in 1..Len(calls) : Failed(calls[k]) =>
            \A m \in (k + 1)..NumChunks(Len(contacts)) :
                /\ m <= Len(calls)
                /\ calls[m].inputs =
                     [j \in 1..Min(100, Len(contacts) - 100 * (m - 1)) |->
                         ContactData(contacts[100 * (m - 1) + j])]

\* The batch call returned a response of status error or raised ApiException.
ApiFailed(call) ==
    call.outcome \in {"error", "conflict", "uncategorized", "ApiException"}

ErrorReports == {"Error:", "Exception when calling batch_api->create:"}

SuccessReports == {"Batch processed successfully.",
                   "Batch creation of contacts completed successfully."}

\* C15: for every batch call that returned a response of status error or
\* raised an API error, load prints an error report and no report of success.
C15_ErrorReported ==
    \A k \in 1..Len(calls) : ApiFailed(calls[k]) =>
        /\ Range(calls[k].printed) \cap ErrorReports # {}
        /\ Range(calls[k].printed) \cap SuccessReports = {}

\* The part of C15 the code keeps: an ApiException is reported as an error
\* and not as a success.
C15_ApiExceptionReported ==
    \A k \in 1..Len(calls) : calls[k].outcome = "ApiException" =>
        /\ Range(calls[k].printed) \cap ErrorReports # {}
        /\ Range(calls[k].printed) \cap SuccessReports = {}

-----------------------------------------------------------------------------
(* format_phone_number *)

MaxPhoneLen == 4

\* The characters of a raw phone: two digits and a character that is none.
PhoneChars == {"0", "1", "-"}

isdigit(c) == c \in {"0", "1"}

RECURSIVE PhoneStrings(_)
\* The raw phones of at most n characters.
PhoneStrings(n) ==
    IF n = 0 THEN {<<>>}
    ELSE PhoneStrings(n - 1) \cup
         {Append(t, c) : t \in {u \in PhoneStrings(n - 1) : Len(u) = n - 1},
                         c \in PhoneChars}

\* ''.join(filter(str.isdigit, phone))
Digits(s) == SelectSeq(s, isdigit)

\* s.startswith(prefix)
startswith(s, prefix) ==
    Len(s) >= Len(prefix) /\ SubSeq(s, 1, Len(prefix)) = prefix

\* Lines 168-175: the digits, without a leading "00", and then without a
\* leading "0" (the second test is an if of its own, not an elif).
Stripped(s) ==
    LET d == Digits(s)
        a == IF startswith(d, <<"0", "0">>) THEN SubSeq(d, 3, Len(d)) ELSE d
    IN IF startswith(a, <<"0">>) THEN Tail(a) ELSE a

\* The regions of the calls and their country calling codes.
Regions == {<<"E", "S">>, <<"U", "S">>}
CallingCode(region) == IF region = <<"E", "S">> THEN <<"3", "4">> ELSE <<"1">>

\* What the phone number library finds for the string handed to it: it
\* cannot parse it, or it parses it and the number is not valid for the
\* region, or it parses it and the number is valid.
LibFindings == {"unparseable", "invalid", "valid"}

\* phonenumbers.parse succeeds; a string of fewer than two digits never
\* parses.
Parses(s, finding) == Len(s) >= 2 /\ finding # "unparseable"

NotProvided == <<"Phone number not provided">>
CouldNotParse == <<"Could not parse the phone number">>

\* Line 183: f"(+{code}) {phone}"
CustomFormat(code, s) == <<"(", "+">> \o code \o <<")", " ">> \o s

\* format_phone_number(phone, country_code): the string handed to the parser
\* (NaN when the parser is not reached) and the value returned.
format_phone_number(ph, cc, finding) ==
    IF isna(ph) \/ ph = <<>>
    THEN [handed |-> NaN, result |-> NotProvided]
    ELSE LET s == Stripped(ph)
         IN IF Parses(s, finding)
            THEN [handed |-> s, result |-> CustomFormat(CallingCode(cc), s)]
            ELSE [handed |-> s, result |-> CouldNotParse]

InitPhone ==
    /\ phone \in {NaN} \cup PhoneStrings(MaxPhoneLen)
    /\ country_code \in Regions
    /\ lib \in LibFindings
    /\ handed = NaN /\ formatted = NaN /\ fpc = "call"
    /\ MergeIdle /\ ExtractIdle /\ LoadIdle /\ GeoIdle /\ TransformIdle

CallFormatPhoneNumber ==
    /\ fpc = "call"
    /\ LET r == format_phone_number(phone, country_code, lib)
       IN handed' = r.handed /\ formatted' = r.result
    /\ fpc' = "returned"
    /\ UNCHANGED <<phone, country_code, lib>>
    /\ UNCHANGED <<mergeVars, extractVars, loadVars, geoVars, transformVars>>

NextPhone == CallFormatPhoneNumber

SpecPhone == InitPhone /\ [][NextPhone]_vars

\* The call reached the parser.
PhoneGiven == fpc = "returned" /\ notna(phone) /\ phone # <<>>

\* The value returned is a formatted number.
IsFormatted(v) == v # <<>> /\ v[1] = "("

\* C11: when the digits parse for the country code and the number is not
\* valid for the region, format_phone_number returns an error outcome and no
\* formatted number.
C11_InvalidNumberReported ==
    (PhoneGiven /\ Parses(handed, lib) /\ lib = "invalid") => ~IsFormatted(formatted)

\* C16: the string handed to the parser is the digit string without its two
\* leading characters when it starts with "00", otherwise without a single
\* leading "0", and never without both.
C16_OnePrefixDropped ==
    PhoneGiven =>
        LET d == Digits(phone)
        IN handed = IF startswith(d, <<"0", "0">>) THEN SubSeq(d, 3, Len(d))
                    ELSE IF startswith(d, <<"0">>) THEN Tail(d)
                    ELSE d

-----------------------------------------------------------------------------
(* get_country_from_city *)

MaxRetries == 3

\* The city names of the calls: missing, empty, plain, quoted, a lone quote.
Cities == {NaN, <<>>, <<"M">>, <<"'", "M", "'">>, <<"'">>}

RECURSIVE strip_quotes(_)
\* str.strip("'")
strip_quotes(s) ==
    IF s = <<>> THEN s
    ELSE IF s[1] = "'" THEN strip_quotes(Tail(s))
    ELSE IF s[Len(s)] = "'" THEN strip_quotes(SubSeq(s, 1, Len(s) - 1))
    ELSE s

\* The last comma-separated segment of the address of a location found.
Countries == {<<"Spain">>, <<"Peru">>}

\* What geolocator.geocode does in one attempt: it returns a location, or
\* None, or raises GeocoderUnavailable, or raises another geopy exception
\* (a timeout, a service or query error).
GeoOutcomes ==
    {[outcome |-> "found", country |-> c] : c \in Countries} \cup
    {[outcome |-> o, country |-> NaN] : o \in {"none", "unavailable", "error"}}

CityNotProvided == <<"City not provided">>
CountryNotFound == <<"Country not found">>
ServiceUnavailable == <<"Service unavailable after retries">>

InitGeo ==
    /\ city \in Cities
    /\ retries \in 0..MaxRetries
    /\ attempts = <<>> /\ country = NaN /\ gpc = "call"
    /\ MergeIdle /\ ExtractIdle /\ LoadIdle /\ PhoneIdle /\ TransformIdle

\* Lines 229-236: without a city the function returns at once.
GeoEnter ==
    /\ gpc = "call"
    /\ IF isna(city) \/ city = <<>>
       THEN country' = CityNotProvided /\ gpc' = "returned"
       ELSE country' = country /\ gpc' = "loop"
    /\ UNCHANGED <<city, retries, attempts>>
    /\ UNCHANGED <<mergeVars, extractVars, loadVars, phoneVars, transformVars>>

\* Lines 239-253 with every failed lookup retried, a miss included.
GeoAttempt_RetryMiss(o) ==
    /\ gpc = "loop"
    /\ Len(attempts) < retries
    /\ attempts' = Append(attempts, [query |-> strip_quotes(city),
                                     outcome |-> o.outcome, country |-> o.country])
    /\ IF o.outcome = "found" THEN country' = o.country /\ gpc' = "returned"
       ELSE IF o.outcome = "error" THEN country' = country /\ gpc' = "raised"
       ELSE country' = country /\ gpc' = "loop"
    /\ UNCHANGED <<city, retries>>
    /\ UNCHANGED <<mergeVars, extractVars, loadVars, phoneVars, transformVars>>

\* One turn of the for loop (lines 239-253): only GeocoderUnavailable is
\* caught, and the loop goes on after it.
GeoAttempt(o) ==
    /\ gpc = "loop"
    /\ Len(attempts) < retries
    /\ attempts' = Append(attempts, [query |-> strip_quotes(city),
                                     outcome |-> o.outcome, country |-> o.country])
    /\ IF o.outcome = "found" THEN country' = o.country /\ gpc' = "returned"
       ELSE IF o.outcome = "none" THEN country' = CountryNotFound /\ gpc' = "returned"
       ELSE IF o.outcome = "unavailable" THEN country' = country /\ gpc' = "loop"
       ELSE country' = country /\ gpc' = "raised"
    /\ UNCHANGED <<city, retries>>
    /\ UNCHANGED <<mergeVars, extractVars, loadVars, phoneVars, transformVars>>

\* The range is exhausted (line 255).
GeoExhausted ==
    /\ gpc = "loop"
    /\ Len(attempts) >= retries
    /\ country' = ServiceUnavailable
    /\ gpc' = "returned"
    /\ UNCHANGED <<city, retries, attempts>>
    /\ UNCHANGED <<mergeVars, extractVars, loadVars, phoneVars, transformVars>>

NextGeo == GeoEnter \/ (\E o \in GeoOutcomes : GeoAttempt(o)) \/ GeoExhausted

\* Every step of the function ends: a lookup returns or raises within the
\* geolocator's timeout, and the sleep between attempts is finite.
SpecGeo == InitGeo /\ [][NextGeo]_vars /\ WF_vars(NextGeo)

GeoEnded == gpc = "returned" \/ gpc = "raised"

Unavailable(k) == attempts[k].outcome = "unavailable"

AllUnavailable == \A k \in 1..Len(attempts) : Unavailable(k)

\* What C12 says of a state of the call.
C12_Safe ==
    LET n == Len(attempts)
    IN /\ n <= retries
       /\ \A k \in 1..(n - 1) : Unavailable(k)
       /\ gpc = "loop" => AllUnavailable
       /\ (gpc = "returned" /\ country # CityNotProvided) =>
             IF n > 0 /\ attempts[n].outcome = "found"
                THEN country = attempts[n].country
             ELSE IF n > 0 /\ attempts[n].outcome = "none"
                THEN country = CountryNotFound
             ELSE country = ServiceUnavailable /\ n = retries /\ AllUnavailable
       /\ country = ServiceUnavailable =>
             gpc = "returned" /\ n = retries /\ AllUnavailable

-----------------------------------------------------------------------------
(* HubSpotDataPipeline.transform, step 3: the loop over the survivors *)

MaxSurvivors == 2

\* retries of get_country_from_city when transform calls it.
DefaultRetries == 3

CodeNotFound == <<"Country code not found in pycountry">>
CityNotFound == <<"City not found">>

\* What get_country_code_from_city does (lines 127-149): its one lookup finds
\* a location whose country pycountry knows, or one it does not know, or
\* finds none, or raises GeocoderUnavailable or another geopy exception;
\* nothing is caught.
CodeOutcomes ==
    {[outcome |-> "code", value |-> r] : r \in Regions} \cup
    {[outcome |-> "no code", value |-> CodeNotFound],
     [outcome |-> "none", value |-> CityNotFound],
     [outcome |-> "unavailable", value |-> NaN],
     [outcome |-> "error", value |-> NaN]}

\* A survivor as step 3 reads and writes it.
Survivor(c, ph) == [country |-> c, phone |-> ph, city |-> NaN, country_code |-> NaN]

InitTransform ==
    /\ \E n \in 0..MaxSurvivors :
          transformed_df \in [1..n -> {Survivor(c, ph) : c \in {NaN, <<>>, <<"M">>},
                                                         ph \in {NaN, <<"1", "1">>}}]
    /\ index = 0 /\ tpc = "row"
    /\ MergeIdle /\ ExtractIdle /\ LoadIdle /\ PhoneIdle /\ GeoIdle

\* Line 396: a survivor without a country value is passed over.
TransformSkip ==
    /\ tpc = "row" /\ index < Len(transformed_df)
    /\ isna(transformed_df[index + 1].country)
    /\ index' = index + 1
    /\ UNCHANGED <<transformed_df, tpc>>
    /\ UNCHANGED <<mergeVars, extractVars, loadVars, phoneVars, geoVars>>

\* Lines 397-404 for an empty city: no lookup is made.
TransformEmptyCity ==
    /\ tpc = "row" /\ index < Len(transformed_df)
    /\ transformed_df[index + 1].country = <<>>
    /\ transformed_df' = [transformed_df EXCEPT ![index + 1] =
                            [@ EXCEPT !.city = <<>>, !.country = CountryNotFound]]
    /\ index' = index + 1
    /\ UNCHANGED tpc
    /\ UNCHANGED <<mergeVars, extractVars, loadVars, phoneVars, geoVars>>

\* Lines 397-399: the city is set and get_country_from_city is called.
TransformCallCountry ==
    /\ tpc = "row" /\ index < Len(transformed_df)
    /\ notna(transformed_df[index + 1].country)
    /\ transformed_df[index + 1].country # <<>>
    /\ transformed_df' = [transformed_df EXCEPT ![index + 1] =
                            [@ EXCEPT !.city = transformed_df[index + 1].country]]
    /\ city' = transformed_df[index + 1].country
    /\ retries' = DefaultRetries
    /\ attempts' = <<>> /\ country' = NaN /\ gpc' = "call"
    /\ tpc' = "country"
    /\ UNCHANGED index
    /\ UNCHANGED <<mergeVars, extractVars, loadVars, phoneVars>>

\* get_country_from_city raised: the exception leaves transform.
TransformCountryRaised ==
    /\ tpc = "country" /\ gpc = "raised"
    /\ tpc' = "error"
    /\ UNCHANGED <<transformed_df, index>>
    /\ UNCHANGED <<mergeVars, extractVars, loadVars, phoneVars, geoVars>>

\* Lines 400-409 after get_country_from_city returned: the country is set,
\* get_country_code_from_city is called on it, and the phone is formatted
\* with the code it returns; what it raises leaves transform.
TransformCountryCode(o, finding) ==
    /\ tpc = "country" /\ gpc = "returned"
    /\ LET row == transformed_df[index + 1]
           f == IF o.value \in Regions THEN finding ELSE "unparseable"
       IN IF o.outcome = "unavailable" \/ o.outcome = "error"
          THEN /\ transformed_df' = [transformed_df EXCEPT ![index + 1] =
                                       [@ EXCEPT !.country = country]]
               /\ tpc' = IF o.outcome = "unavailable"
                         THEN "GeocoderUnavailable" ELSE "error"
               /\ index' = index
          ELSE /\ transformed_df' = [transformed_df EXCEPT ![index + 1] =
                    [@ EXCEPT !.country = country,
                              !.country_code = o.value,
                              !.phone = IF notna(row.phone)
                                        THEN format_phone_number(row.phone, o.value, f).result
                                        ELSE row.phone]]
               /\ tpc' = "row"
               /\ index' = index + 1
    /\ UNCHANGED <<mergeVars, extractVars, loadVars, phoneVars, geoVars>>

\* The loop is over: transform goes on to return the frame (lines 411-418).
TransformDone ==
    /\ tpc = "row" /\ index >= Len(transformed_df)
    /\ tpc' = "done"
    /\ UNCHANGED <<transformed_df, index>>
    /\ UNCHANGED <<mergeVars, extractVars, loadVars, phoneVars, geoVars>>

\* The lookups of get_country_from_city run while transform waits for it.
NextTransform ==
    \/ TransformSkip
    \/ TransformEmptyCity
    \/ TransformCallCountry
    \/ (tpc = "country" /\ GeoEnter)
    \/ (\E o \in GeoOutcomes : tpc = "country" /\ GeoAttempt(o))
    \/ (tpc = "country" /\ GeoExhausted)
    \/ TransformCountryRaised
    \/ (\E o \in CodeOutcomes, finding \in LibFindings : TransformCountryCode(o, finding))
    \/ TransformDone

SpecTransform == InitTransform /\ [][NextTransform]_vars

\* C13: a service-unavailable failure of a lookup of step 3 never leaves
\* transform as an exception.
C13_GeoUnavailableNotRaised == tpc # "GeocoderUnavailable"

\* The country lookup degrades to its sentinel when the service is
\* unavailable (the part of C13 the code keeps).
C13_CountryLookupDegrades ==
    (tpc = "country" /\ gpc = "returned"
        /\ Len(attempts) = DefaultRetries /\ AllUnavailable)
    => country = ServiceUnavailable

-----------------------------------------------------------------------------
(* The merge followed by the load. *)

\* s is one ';' followed by exactly the values of E joined by ';', with no
\* empty entry.
ListsExactly(s, E) ==
    /\ s # <<>> /\ s[1] = ";"
    /\ IF E = {} THEN Tail(s) = <<>>
       ELSE Range(split(Tail(s))) = E

\* C19: for every merged record, the original_industry of its batch input
\* has exactly one leading ';' and lists exactly the values of the record's
\* merged industries, with no doubled separator and no empty entry.
C19_OriginalIndustry ==
    op = "merge_duplicates" =>
        \A k \in 1..Len(calls) : \A j \in 1..Len(calls[k].inputs) :
            ListsExactly(calls[k].inputs[j].properties.original_industry,
                         Values(contacts[batch_size * (k - 1) + j]))

\* What the code sends: a ';' followed by the merged industries field as it
\* is, which has a leading ';' of its own.
C19_SeparatorDoubled ==
    op = "merge_duplicates" =>
        \A k \in 1..Len(calls) : \A j \in 1..Len(calls[k].inputs) :
            calls[k].inputs[j].properties.original_industry =
                <<";">> \o contacts[batch_size * (k - 1) + j].industry

====
